---- MODULE Spec2Model ----
(***************************************************************************)
(* Model of api/index.py: the travel-review backend.  The state is the two *)
(* MongoDB collections (users, reviews), the local variables of the        *)
(* requests that are between two database calls, and the last HTTP         *)
(* response.  Every database call (find_one, insert_one, update_one, find) *)
(* is one atomic step; a handler with two database calls is two steps.     *)
(***************************************************************************)
EXTENDS Integers, Sequences, FiniteSets, TLC

VARIABLES users, reviews, req, response, nresp, rated

vars == <<users, reviews, req, response, nresp, rated>>

-----------------------------------------------------------------------------
(* Bounds of the model *)

NumClients == 2
MaxRequests == 4
MaxSerialRequests == 9
MaxSignupRequests == 4
MaxQueryRequests == 3
MaxReviews == 2

Clients == 1..NumClients

-----------------------------------------------------------------------------
(* Python floats (IEEE-754 binary64) of the rating arithmetic.  Every      *)
(* value the handler computes is 0 or lies in [1, 256), where each double  *)
(* is a multiple of 2^-52; a value is the integer  value * 2^52  written   *)
(* as three limbs <<h, m, l>> in base 2^20 (h is the unbounded top limb).  *)

Base == 1048576

OneHigh == 4096

Zero == <<0, 0, 0>>

FromInt(n) == <<n * OneHigh, 0, 0>>

Norm(h, m, l) ==
    LET m1 == m + (l \div Base)
    IN  <<h + (m1 \div Base), m1 % Base, l % Base>>

RECURSIVE Quantum(_)
(* the spacing of the doubles around a value with top limb h, in units of 2^-52 *)
Quantum(h) == IF h < 2 * OneHigh THEN 1 ELSE 2 * Quantum(h \div 2)

(* round-to-nearest, ties-to-even, of the exact value x to a double *)
RoundNearestEven(x) ==
    LET q    == Quantum(x[1])
        rem  == x[3] % q
        down == <<x[1], x[2], x[3] - rem>>
        up   == Norm(x[1], x[2], x[3] - rem + q)
    IN  IF 2 * rem < q THEN down
        ELSE IF 2 * rem > q THEN up
        ELSE IF ((x[3] \div q) % 2) = 0 THEN down ELSE up

(* float * int *)
FMul(x, c) == RoundNearestEven(Norm(x[1] * c, x[2] * c, x[3] * c))

(* float + int *)
FAdd(x, r) == RoundNearestEven(<<x[1] + r * OneHigh, x[2], x[3]>>)

(* float / int : the correctly rounded quotient *)
FDiv(x, d) ==
    LET q1  == x[1] \div d
        t2  == (x[1] % d) * Base + x[2]
        q2  == t2 \div d
        t3  == (t2 % d) * Base + x[3]
        q3  == t3 \div d
        r3  == t3 % d
        q   == Quantum(q1)
        low == q3 % q
        num == low * d + r3
        down == <<q1, q2, q3 - low>>
        up   == Norm(q1, q2, q3 - low + q)
    IN  IF 2 * num < q * d THEN down
        ELSE IF 2 * num > q * d THEN up
        ELSE IF ((q3 \div q) % 2) = 0 THEN down ELSE up

FLeq(x, y) ==
    \/ x[1] < y[1]
    \/ x[1] = y[1] /\ x[2] < y[2]
    \/ x[1] = y[1] /\ x[2] = y[2] /\ x[3] <= y[3]

-----------------------------------------------------------------------------
(* Request inputs *)

(* the well-formed 24-hex-digit tokens; IdTokens[k] is str() of the k-th   *)
(* ObjectId the reviews collection hands out                               *)
IdTokens == <<"65a1", "65a2", "65a3", "65a4", "65a5">>

(* "" is a missing or empty reviewId, "xyz" is not a valid ObjectId string *)
ReviewIdInputs == {"", "xyz"} \cup {IdTokens[k] : k \in 1..(MaxReviews + 1)}

(* data.get("rating") of a body without the key *)
None == -1000

RatingInputs == {None, 0, 1, 5, 6}

SerialRatings == {2, 4, 5}

NoIdentity == ""

Identities == {NoIdentity, "a@x"}

CommentInputs == {"", "c1", "c2"}

Emails == {"a@x", "b@x"}

Names == {"", "ann"}

(* ObjectId(review_id): the index of the token, 0 when bson raises InvalidId *)
ObjectId(review_id) ==
    IF \E k \in 1..Len(IdTokens) : IdTokens[k] = review_id
    THEN CHOOSE k \in 1..Len(IdTokens) : IdTokens[k] = review_id
    ELSE 0

(* str(review["_id"]) *)
Str(oid) == IdTokens[oid]

-----------------------------------------------------------------------------
(* The document store *)

NoReview == [_id |-> 0, Name |-> "", location |-> "", purpose |-> "",
             budget |-> "", transport |-> "", review |-> "",
             rating |-> Zero, rating_count |-> 0, comments |-> <<>>]

(* reviews_collection.find_one({"_id": oid}) *)
find_one(coll, oid) ==
    IF oid \in 1..Len(coll) THEN coll[oid] ELSE NoReview

(* an update that ignores its filter, as update_many({}, update) would *)
update_one_unfiltered(coll, oid, updated) ==
    [k \in 1..Len(coll) |-> updated[k]]

(* reviews_collection.update_one({"_id": oid}, update): the document that  *)
(* matches the filter takes its updated form, updated[k] being the update  *)
(* applied to coll[k]; no match changes nothing                            *)
update_one(coll, oid, updated) ==
    [k \in 1..Len(coll) |-> IF coll[k]._id = oid THEN updated[k] ELSE coll[k]]

(* {"$push": {"comments": {"user_email": ..., "comment": ...}}} *)
Push(doc, entry) == [doc EXCEPT !.comments = Append(@, entry)]

(* a $set that leaves "rating" out *)
SetRating_count_only(doc, new_avg_rating, new_rating_count) ==
    [doc EXCEPT !.rating_count = new_rating_count]

(* {"$set": {"rating": new_avg_rating, "rating_count": new_rating_count}} *)
SetRating(doc, new_avg_rating, new_rating_count) ==
    [doc EXCEPT !.rating = new_avg_rating, !.rating_count = new_rating_count]

(* lines 208-210 of update_rating *)
total_rating(review, rating) == FAdd(FMul(review.rating, review.rating_count), rating)

new_rating_count(review) == review.rating_count + 1

new_avg_rating(review, rating) == FDiv(total_rating(review, rating), new_rating_count(review))

(* writing back the whole document that find_one returned, as a           *)
(* replace_one(review) would, instead of a $set of the two fields          *)
UpdatedDoc_replace(doc, review, rating) ==
    SetRating(review, new_avg_rating(review, rating), new_rating_count(review))

(* lines 212-220: the stored document doc after the $set computed from the *)
(* document review that find_one returned                                  *)
UpdatedDoc(doc, review, rating) ==
    SetRating(doc, new_avg_rating(review, rating), new_rating_count(review))

(* a range check without its upper limit *)
RatingInRange_no_upper(rating) == 1 <= rating

(* line 199 *)
RatingInRange(rating) == 1 <= rating /\ rating <= 5

-----------------------------------------------------------------------------
(* Requests in flight and responses *)

Idle == [at |-> "idle", review_id |-> "", rating |-> 0, review |-> NoReview,
         name |-> "", email |-> ""]

NoArgs == [location |-> "", purpose |-> "", budget |-> "", transport |-> "", sort |-> ""]

Resp(op, status) ==
    [op |-> op, status |-> status, review_id |-> "", rating |-> 0,
     comment |-> "", identity |-> "", email |-> "", args |-> NoArgs, body |-> <<>>]

InFlight == {c \in Clients : req[c].at # "idle"}

(* the number of requests the server has accepted so far *)
Started == nresp + Cardinality(InFlight)

Init ==
    /\ users = <<>>
    /\ reviews = <<>>
    /\ req = [c \in Clients |-> Idle]
    /\ response = Resp("none", 0)
    /\ nresp = 0
    /\ rated = <<>>

Reply(r) ==
    /\ response' = r
    /\ nresp' = nresp + 1

-----------------------------------------------------------------------------
(* POST /add_review.  complete = FALSE is a body that lacks one of the     *)
(* keys read with data[...]: KeyError, HTTP 500, nothing inserted.         *)
add_review(c, complete, location, purpose, budget, transport) ==
    /\ req[c].at = "idle"
    /\ Len(reviews) < MaxReviews
    /\ IF ~complete
       THEN /\ Reply(Resp("add_review", 500))
            /\ UNCHANGED <<reviews, rated>>
       ELSE /\ reviews' = Append(reviews,
                  [_id |-> Len(reviews) + 1, Name |-> "n", location |-> location,
                   purpose |-> purpose, budget |-> budget, transport |-> transport,
                   review |-> "text", rating |-> Zero, rating_count |-> 0,
                   comments |-> <<>>])
            /\ rated' = Append(rated, [sum |-> 0, n |-> 0])
            /\ Reply(Resp("add_review", 201))
    /\ UNCHANGED <<users, req>>

(* POST /add_comment, one step: the only database call is the update_one   *)
add_comment(c, identity, review_id, comment) ==
    /\ req[c].at = "idle"
    /\ LET r == [Resp("add_comment", 0) EXCEPT !.review_id = review_id,
                     !.comment = comment, !.identity = identity]
       IN  IF identity = NoIdentity
           THEN /\ Reply([r EXCEPT !.status = 401])
                /\ UNCHANGED reviews
           ELSE IF review_id = "" \/ comment = ""
           THEN /\ Reply([r EXCEPT !.status = 400])
                /\ UNCHANGED reviews
           ELSE IF ObjectId(review_id) = 0
           THEN /\ Reply([r EXCEPT !.status = 500])
                /\ UNCHANGED reviews
           ELSE LET entry == [user_email |-> identity, comment |-> comment]
                    pushed == [k \in 1..Len(reviews) |-> Push(reviews[k], entry)]
                IN  /\ reviews' = update_one(reviews, ObjectId(review_id), pushed)
                    /\ Reply([r EXCEPT !.status = 200])
    /\ UNCHANGED <<users, req, rated>>

(* POST /update_rating, lines 192-205: the checks and the find_one *)
update_rating_find(c, review_id, rating) ==
    /\ req[c].at = "idle"
    /\ LET r == [Resp("update_rating", 0) EXCEPT !.review_id = review_id,
                     !.rating = rating]
       IN  IF review_id = "" \/ rating = None \/ rating = 0
           THEN /\ Reply([r EXCEPT !.status = 400])
                /\ UNCHANGED req
           ELSE IF ~RatingInRange(rating)
           THEN /\ Reply([r EXCEPT !.status = 400])
                /\ UNCHANGED req
           ELSE IF ObjectId(review_id) = 0
           THEN /\ Reply([r EXCEPT !.status = 500])
                /\ UNCHANGED req
           ELSE IF find_one(reviews, ObjectId(review_id)) = NoReview
           THEN /\ Reply([r EXCEPT !.status = 404])
                /\ UNCHANGED req
           ELSE /\ req' = [req EXCEPT ![c] = [Idle EXCEPT !.at = "update",
                              !.review_id = review_id, !.rating = rating,
                              !.review = find_one(reviews, ObjectId(review_id))]]
                /\ UNCHANGED <<response, nresp>>
    /\ UNCHANGED <<users, reviews, rated>>

(* POST /update_rating, lines 207-222: the update_one and the 200 *)
update_rating_update(c) ==
    /\ req[c].at = "update"
    /\ LET review == req[c].review
           rating == req[c].rating
           oid    == ObjectId(req[c].review_id)
           set    == [k \in 1..Len(reviews) |-> UpdatedDoc(reviews[k], review, rating)]
       IN  /\ reviews' = update_one(reviews, oid, set)
           /\ rated' = [rated EXCEPT ![oid] = [sum |-> @.sum + rating, n |-> @.n + 1]]
           /\ Reply([Resp("update_rating", 200) EXCEPT
                        !.review_id = req[c].review_id, !.rating = rating])
    /\ req' = [req EXCEPT ![c] = Idle]
    /\ UNCHANGED users

-----------------------------------------------------------------------------
(* GET /get_reviews *)

FilterFields == {"location", "purpose", "budget", "transport"}

(* a query that leaves the budget filter out *)
BuildQuery_no_budget(args) ==
    [f \in {g \in FilterFields \ {"budget"} : args[g] # ""} |-> args[f]]

(* lines 127-141: a filter is put in the query only when its value is truthy *)
BuildQuery(args) == [f \in {g \in FilterFields : args[g] # ""} |-> args[f]]

Matches(doc, query) == \A f \in DOMAIN query : doc[f] = query[f]

(* reviews_collection.find(query), in the collection's natural order *)
find(coll, query) == SelectSeq(coll, LAMBDA doc : Matches(doc, query))

Reverse(s) == [i \in 1..Len(s) |-> s[Len(s) + 1 - i]]

(* all orders of the documents of s *)
Orders(s) ==
    {[i \in 1..Len(s) |-> s[p[i]]] :
        p \in {q \in [1..Len(s) -> 1..Len(s)] : \A i, j \in 1..Len(s) : q[i] = q[j] => i = j}}

(* cursor.sort([sort_order]): ("_id", -1) is the reverse of the insertion  *)
(* order; ("rating", -1) is any order with non-increasing ratings, the     *)
(* order of equal ratings being left to the store                          *)
Sorted(found, sort) ==
    IF sort = "newest" THEN {Reverse(found)}
    ELSE IF sort = "rating"
    THEN {s \in Orders(found) : \A i \in 1..(Len(s) - 1) : FLeq(s[i + 1].rating, s[i].rating)}
    ELSE {found}

(* lines 153-156: review["_id"] = str(review["_id"]) *)
Jsonify(cursor) == [i \in 1..Len(cursor) |-> [cursor[i] EXCEPT !._id = Str(@)]]

get_reviews(c, args) ==
    /\ req[c].at = "idle"
    /\ \E cursor \in Sorted(find(reviews, BuildQuery(args)), args.sort) :
          Reply([Resp("get_reviews", 200) EXCEPT !.args = args, !.body = Jsonify(cursor)])
    /\ UNCHANGED <<users, reviews, req, rated>>

-----------------------------------------------------------------------------
(* POST /signup *)

(* lines 43-51: the checks and the find_one *)
signup_find(c, name, email, password) ==
    /\ req[c].at = "idle"
    /\ LET r == [Resp("signup", 0) EXCEPT !.email = email]
       IN  IF name = "" \/ email = "" \/ password = ""
           THEN /\ Reply([r EXCEPT !.status = 400])
                /\ UNCHANGED req
           ELSE IF \E i \in 1..Len(users) : users[i].email = email
           THEN /\ Reply([r EXCEPT !.status = 409])
                /\ UNCHANGED req
           ELSE /\ req' = [req EXCEPT ![c] = [Idle EXCEPT !.at = "insert",
                              !.name = name, !.email = email]]
                /\ UNCHANGED <<response, nresp>>
    /\ UNCHANGED <<users, reviews, rated>>

(* lines 53-68: the insert_one and the 201 *)
signup_insert(c) ==
    /\ req[c].at = "insert"
    /\ users' = Append(users, [name |-> req[c].name, email |-> req[c].email])
    /\ Reply([Resp("signup", 201) EXCEPT !.email = req[c].email])
    /\ req' = [req EXCEPT ![c] = Idle]
    /\ UNCHANGED <<reviews, rated>>

-----------------------------------------------------------------------------
(* Specifications *)

(* the review lifecycle: concurrent add_review, add_comment, update_rating *)
Next ==
    \/ \E c \in Clients, complete \in BOOLEAN :
          /\ Started < MaxRequests
          /\ add_review(c, complete, "goa", "fun", "low", "bus")
    \/ \E c \in Clients, identity \in Identities, review_id \in ReviewIdInputs,
          comment \in CommentInputs :
          /\ Started < MaxRequests
          /\ add_comment(c, identity, review_id, comment)
    \/ \E c \in Clients, review_id \in ReviewIdInputs, rating \in RatingInputs :
          /\ Started < MaxRequests
          /\ update_rating_find(c, review_id, rating)
    \/ \E c \in Clients : update_rating_update(c)

Spec == Init /\ [][Next]_vars

(* update_rating requests on one review one after another, those on        *)
(* different reviews interleaved                                           *)
OtherOnSameReview(c, review_id) ==
    \E d \in Clients \ {c} : req[d].at = "update" /\ req[d].review_id = review_id

SerialNext ==
    \/ \E c \in Clients :
          /\ Started < MaxSerialRequests
          /\ add_review(c, TRUE, "goa", "fun", "low", "bus")
    \/ \E c \in Clients, k \in 1..MaxReviews, rating \in SerialRatings :
          /\ Started < MaxSerialRequests
          /\ ~OtherOnSameReview(c, IdTokens[k])
          /\ update_rating_find(c, IdTokens[k], rating)
    \/ \E c \in Clients : update_rating_update(c)

SerialSpec == Init /\ [][SerialNext]_vars

(* concurrent signups *)
SignupNext ==
    \/ \E c \in Clients, name \in Names, email \in Emails \cup {""}, password \in {"", "pw"} :
          /\ Started < MaxSignupRequests
          /\ signup_find(c, name, email, password)
    \/ \E c \in Clients : signup_insert(c)

SignupSpec == Init /\ [][SignupNext]_vars

(* the review query over reviews with every descriptive field varying *)
Locations == {"goa", "pune"}
Purposes == {"fun", "work"}
Budgets == {"low", "high"}
Transports == {"bus"}
Sorts == {"", "newest", "rating"}

QueryArgs ==
    [location : {"", "goa"}, purpose : {"", "fun", "work"},
     budget : {"", "low"}, transport : {"", "bus"}, sort : Sorts]

QueryNext ==
    \/ \E c \in Clients, location \in Locations, purpose \in Purposes,
          budget \in Budgets, transport \in Transports :
          /\ Started < MaxQueryRequests
          /\ add_review(c, TRUE, location, purpose, budget, transport)
    \/ \E c \in Clients, args \in QueryArgs :
          /\ Started < MaxQueryRequests
          /\ get_reviews(c, args)

QuerySpec == Init /\ [][QueryNext]_vars

-----------------------------------------------------------------------------
(* Properties *)

(* the step is the server answering a request of handler op *)
Answers(op) == nresp' = nresp + 1 /\ response'.op = op

Exists(review_id) == ObjectId(review_id) \in 1..Len(reviews)

(* the correctly rounded arithmetic mean of n ratings of total sum *)
Mean(sum, n) == IF n = 0 THEN Zero ELSE FDiv(FromInt(sum), n)

UpdatesInFlight(k) ==
    {c \in Clients : req[c].at = "update" /\ ObjectId(req[c].review_id) = k}

(* C1: whenever every update_rating request on a review has returned (none *)
(* is between its find_one and its update_one), the review's rating_count  *)
(* is the number n of requests that returned 200 and its rating is the     *)
(* mean of their n ratings: no update is lost under any interleaving.      *)
C1_NoLostUpdate ==
    \A k \in 1..Len(reviews) :
        UpdatesInFlight(k) = {} =>
            /\ reviews[k].rating_count = rated[k].n
            /\ reviews[k].rating = Mean(rated[k].sum, rated[k].n)

(* C2: when the update_rating requests on each review run one after        *)
(* another, a review created with rating 0 and count 0 always stores the   *)
(* count n of the ratings submitted to it and the rating sum / n, whatever *)
(* requests on other reviews are interleaved.                              *)
C2_SerialMean ==
    \A k \in 1..Len(reviews) :
        /\ rated[k].n = reviews[k].rating_count
        /\ Mean(rated[k].sum, rated[k].n) = reviews[k].rating

(* C3: no two user records share an email, under any interleaving of the   *)
(* find_one and insert_one steps of concurrent signups.                    *)
C3_UniqueEmail ==
    \A i, j \in 1..Len(users) : users[i].email = users[j].email => i = j

(* C4: an update_rating request whose rating is a number outside 1..5 is   *)
(* answered 400 and the step changes no stored review, whether or not the  *)
(* reviewId resolves.                                                      *)
C4_OutOfRangeRejected ==
    [][(/\ Answers("update_rating")
        /\ response'.rating # None
        /\ ~(1 <= response'.rating /\ response'.rating <= 5))
       => (response'.status = 400 /\ reviews' = reviews)]_vars

C4_Witness ==
    /\ response.op = "update_rating"
    /\ response.rating = 6
    /\ response.status = 400
    /\ Exists(response.review_id)
    /\ reviews[ObjectId(response.review_id)].rating_count = 1

(* C5: an authenticated add_comment with a non-empty reviewId and comment  *)
(* whose reviewId does not resolve to an existing review is answered 404   *)
(* and changes no stored review.                                           *)
C5_CommentNotFound ==
    [][(/\ Answers("add_comment")
        /\ response'.identity # NoIdentity
        /\ response'.review_id # ""
        /\ response'.comment # ""
        /\ ~Exists(response'.review_id))
       => (response'.status = 404 /\ reviews' = reviews)]_vars

(* C6: an update_rating with a rating in 1..5 whose reviewId does not      *)
(* resolve to an existing review is answered 404, creates no review and    *)
(* leaves every stored review unchanged.                                   *)
C6_RatingNotFound ==
    [][(/\ Answers("update_rating")
        /\ response'.rating \in 1..5
        /\ response'.review_id # ""
        /\ ~Exists(response'.review_id))
       => (response'.status = 404 /\ reviews' = reviews)]_vars

(* C7: in every step every review's comments either stay as they are or    *)
(* get one element appended at the end, and the step that answers 200 to   *)
(* an add_comment on an existing review appends that request's             *)
(* {user_email, comment} entry; so c1 then c2 are stored as [c1, c2].      *)
C7_CommentsAppendOnly ==
    [][/\ \A k \in 1..Len(reviews) :
            \/ reviews'[k].comments = reviews[k].comments
            \/ /\ Len(reviews'[k].comments) = Len(reviews[k].comments) + 1
               /\ SubSeq(reviews'[k].comments, 1, Len(reviews[k].comments))
                     = reviews[k].comments
       /\ (/\ Answers("add_comment")
           /\ response'.status = 200
           /\ Exists(response'.review_id))
          => reviews'[ObjectId(response'.review_id)].comments
                = Append(reviews[ObjectId(response'.review_id)].comments,
                         [user_email |-> response'.identity,
                          comment |-> response'.comment])]_vars

C7_Witness ==
    \E k \in 1..Len(reviews) :
        /\ reviews[k].comments = <<[user_email |-> "a@x", comment |-> "c1"],
                                   [user_email |-> "a@x", comment |-> "c2"]>>
        /\ reviews[k].rating_count = 1

C9_OtherReviewsUntouched ==
    [][LET answered == IF Answers("update_rating") \/ Answers("add_comment")
                       THEN {ObjectId(response'.review_id)} ELSE {}
           found == {ObjectId(req'[c].review_id) :
                        c \in {d \in Clients : req[d].at = "idle" /\ req'[d].at = "update"}}
       IN  \A a \in answered \cup found :
              /\ Len(reviews') = Len(reviews)
              /\ \A b \in 1..Len(reviews) : b # a => reviews'[b] = reviews[b]]_vars

(* a rating on review 1 and a comment on review 2 have both been stored *)
C9_Witness ==
    /\ Len(reviews) = 2
    /\ reviews[1].rating_count = 1
    /\ reviews[2].rating_count = 0
    /\ reviews[1].comments = <<>>
    /\ reviews[2].comments # <<>>

(* C10: every review has rating_count = 0 and rating = 0, or               *)
(* rating_count >= 1 and 1 <= rating <= 5, also when read-then-write steps *)
(* of concurrent update_rating requests overlap.                           *)
C10_RatingRange ==
    \A k \in 1..Len(reviews) :
        \/ reviews[k].rating_count = 0 /\ reviews[k].rating = Zero
        \/ /\ reviews[k].rating_count >= 1
           /\ FLeq(FromInt(1), reviews[k].rating)
           /\ FLeq(reviews[k].rating, FromInt(5))

(* a lost update has happened: two requests returned 200, one is counted *)
C10_Witness ==
    \E k \in 1..Len(reviews) :
        /\ rated[k].n = 2
        /\ reviews[k].rating_count = 1
        /\ UpdatesInFlight(k) = {}

====
